---- MODULE Spec2Model ----
(***************************************************************************)
(* goalsa: Go bindings to ALSA.  The package exists in two variants of the *)
(* same file: src/alsa.go (raw []byte transfers, Close returns an error)   *)
(* and src/unnamed/part_000 (reflective transfers with an element-size     *)
(* check, Close returns nothing).  The model carries both; `variant` says  *)
(* which one is built.  The ALSA library is the external backend: every    *)
(* status code and every value it returns is an input of the action that   *)
(* makes the call, and every call the code issues is recorded.             *)
(***************************************************************************)
EXTENDS Integers, Sequences, FiniteSets, TLC

VARIABLES
    variant,      \* "alsa" (src/alsa.go) or "part000" (src/unnamed/part_000)
    pc,           \* "init" before the constructor, "built" after it
    playback,     \* direction given to the constructor
    reachable,    \* the caller holds the device the constructor returned
    h,            \* device.h: the backend handle, NULL after a completed Close
    finalizer,    \* the finalizer set by runtime.SetFinalizer is in force
    Audio,        \* device.Audio (alsa.go) / device.Channels, Format, Rate (part_000)
    BufferParams, \* device.BufferParams
    frames,       \* device.frames
    closeCount,   \* snd_pcm_close calls issued on the handle obtained at open
    lastOp,       \* the most recent operation: its input, backend calls and result
    afterXrun,    \* the operation before lastOp returned ErrOverrun or ErrUnderrun
    negIn,        \* what the constructor was given: audio, hint, backend behaviour
    mixer,        \* the backend's master control: its range and current value
    vproc,        \* per caller, the volume call in flight (VolIdle when none)
    vlast,        \* the most recent volume event: a returned call or a change
                  \* of the control made outside the program
    vprev,        \* the event before vlast, in short
    mixerOpen     \* mixer handles opened and not yet closed

devvars == <<variant, pc, playback, reachable, h, finalizer, Audio, BufferParams,
             frames, closeCount, lastOp, afterXrun, negIn>>

volvars == <<mixer, vproc, vlast, vprev, mixerOpen>>

vars == <<devvars, volvars>>

----------------------------------------------------------------------------
(* Bounds of the model. *)

MaxLen == 4          \* longest buffer handed to Read / Write, in elements
MaxRelease == 3      \* cap on release calls issued on one handle
MaxChannels == 2     \* largest channel count requested

(* Program constants. *)

EPIPE == 32          \* C.EPIPE
PeriodDivisor == 8   \* default period: rate / 8

NULL == "nil"        \* nil handle
H == "pcm"           \* the handle snd_pcm_open stores in d.h

Variants == {"alsa", "part000"}

OtherErrs == {-5}    \* negative statuses other than -EPIPE (here -EIO)

----------------------------------------------------------------------------
(* Errors.  createError appends snd_strerror(code) to the message; an      *)
(* errors.New / fmt.Errorf value carries code 0.                           *)

NoErr == [msg |-> "nil", code |-> 0]

createError(errorMsg, errorCode) == [msg |-> errorMsg, code |-> errorCode]

ErrOverrun == [msg |-> "overrun", code |-> 0]
ErrUnderrun == [msg |-> "underrun", code |-> 0]
ErrSize == [msg |-> "Slice element size does not correspond to the device sample size", code |-> 0]

----------------------------------------------------------------------------
(* Sample formats and their byte width. *)

Formats ==
    {"S8", "U8", "S16LE", "S16BE", "U16LE", "U16BE", "S24LE", "S24BE", "U24LE",
     "U24BE", "S32LE", "S32BE", "U32LE", "U32BE", "FloatLE", "FloatBE",
     "Float64LE", "Float64BE"}

formatSampleSize(format) ==
    CASE format \in {"S8", "U8"} -> 1
      [] format \in {"S16LE", "S16BE", "U16LE", "U16BE"} -> 2
      [] format \in {"S24LE", "S24BE", "U24LE", "U24BE", "S32LE", "S32BE",
                     "U32LE", "U32BE", "FloatLE", "FloatBE"} -> 4
      [] format \in {"Float64LE", "Float64BE"} -> 8

----------------------------------------------------------------------------
(* Backend calls.  A call is what the code hands to the library: the       *)
(* function, the handle and one numeric argument (0 where there is none).  *)

Call(fn, hh, arg) == [fn |-> fn, h |-> hh, arg |-> arg]

NoAudio == [Channels |-> 0, SamplingRate |-> 0, SampleFormat |-> "none"]
NoBufferParams == [BufferFrames |-> 0, PeriodFrames |-> 0, Periods |-> 0]

(* The backend's "nearest" adjustment of a requested size. *)
Near(req, delta) == IF req + delta < 1 THEN 1 ELSE req + delta

(* The backend's adjustment of a requested period size: the configuration *)
(* space already holds the accepted buffer size, and a period is never    *)
(* longer than the buffer.                                                *)
PeriodNear(req, delta, bufferSize) ==
    IF Near(req, delta) > bufferSize THEN bufferSize ELSE Near(req, delta)

----------------------------------------------------------------------------
(* Negotiation.  `be` is the backend's behaviour during one constructor    *)
(* call: the step it rejects (failAt, "none" for no rejection) with status *)
(* be.code, the maximum buffer size it reports, its adjustment of the      *)
(* requested buffer and period sizes, and the period count it reports.     *)

NegSteps ==
    <<"snd_pcm_open", "snd_pcm_hw_params_malloc", "snd_pcm_hw_params_any",
      "snd_pcm_hw_params_set_access", "snd_pcm_hw_params_set_format",
      "snd_pcm_hw_params_set_channels", "snd_pcm_hw_params_set_rate",
      "snd_pcm_hw_params_get_buffer_size_max",
      "snd_pcm_hw_params_set_buffer_size_near",
      "snd_pcm_hw_params_set_period_size_near", "snd_pcm_hw_params_get_periods",
      "snd_pcm_hw_params">>

StepNames == {NegSteps[i] : i \in 1..Len(NegSteps)}

(* Seeded fault: the status of snd_pcm_hw_params_set_rate is not checked. *)
RejectsButRate(be, fn) == be.failAt = fn /\ fn # "snd_pcm_hw_params_set_rate"

(* The `ret < 0` test after the backend call fn. *)
Rejects(be, fn) == be.failAt = fn

(* A constructor that returns an error: the device keeps what was set     *)
(* before the return; hwFree says whether the deferred                     *)
(* snd_pcm_hw_params_free runs.                                            *)
Failed(calls, err, hh, fin, hwFree) ==
    [calls |-> IF hwFree
               THEN Append(calls, Call("snd_pcm_hw_params_free", NULL, 0))
               ELSE calls,
     err |-> err, h |-> hh, finalizer |-> fin, Audio |-> NoAudio,
     BufferParams |-> NoBufferParams, frames |-> 0]

(* Seeded fault: the finalizer is registered only once the negotiation succeeded. *)
InitDeviceFinalizerLate(audio, pb, bufferParams, be) == be.failAt = "none"

(* runtime.SetFinalizer(d, Close) right after a successful open. *)
InitDeviceFinalizer(audio, pb, bufferParams, be) == TRUE

(* Seeded fault: a zero buffer hint is requested as it is. *)
BufferRequestNoDefault(bufferParams, bufMax) == bufferParams.BufferFrames

(* The buffer size handed to set_buffer_size_near: the hint's, or the     *)
(* backend's maximum when the hint is 0.                                  *)
BufferRequest(bufferParams, bufMax) ==
    IF bufferParams.BufferFrames = 0 THEN bufMax ELSE bufferParams.BufferFrames

(* Seeded fault: the period is derived from the hinted buffer size. *)
PeriodRequestFromHint(audio, bufferParams, bufferSize) ==
    IF bufferParams.PeriodFrames > 0
    THEN bufferParams.PeriodFrames
    ELSE IF bufferParams.Periods > 0
         THEN bufferParams.BufferFrames \div bufferParams.Periods
         ELSE audio.SamplingRate \div PeriodDivisor

(* The period size handed to set_period_size_near. *)
PeriodRequest(audio, bufferParams, bufferSize) ==
    IF bufferParams.PeriodFrames > 0
    THEN bufferParams.PeriodFrames
    ELSE IF bufferParams.Periods > 0
         THEN bufferSize \div bufferParams.Periods
         ELSE audio.SamplingRate \div PeriodDivisor

(* Seeded fault: the period count is computed from the two sizes. *)
LayoutLocalPeriods(bufferParams, bufferSize, periodFrames, periods) ==
    [BufferFrames |-> bufferSize, PeriodFrames |-> periodFrames,
     Periods |-> bufferSize \div periodFrames]

(* Seeded fault: the hinted buffer size is stored. *)
LayoutHintBuffer(bufferParams, bufferSize, periodFrames, periods) ==
    [BufferFrames |-> bufferParams.BufferFrames, PeriodFrames |-> periodFrames,
     Periods |-> periods]

(* d.BufferParams after a successful negotiation. *)
Layout(bufferParams, bufferSize, periodFrames, periods) ==
    [BufferFrames |-> bufferSize, PeriodFrames |-> periodFrames, Periods |-> periods]

initDevice(audio, pb, bufferParams, be) ==
    LET fin == InitDeviceFinalizer(audio, pb, bufferParams, be)
        c1 == <<Call("snd_pcm_open", NULL, IF pb THEN 1 ELSE 0)>>
        c2 == Append(c1, Call("snd_pcm_hw_params_malloc", NULL, 0))
        c3 == Append(c2, Call("snd_pcm_hw_params_any", H, 0))
        c4 == Append(c3, Call("snd_pcm_hw_params_set_access", H, 0))
        c5 == Append(c4, Call("snd_pcm_hw_params_set_format", H,
                              formatSampleSize(audio.SampleFormat)))
        c6 == Append(c5, Call("snd_pcm_hw_params_set_channels", H, audio.Channels))
        c7 == Append(c6, Call("snd_pcm_hw_params_set_rate", H, audio.SamplingRate))
        askMax == bufferParams.BufferFrames = 0
        c8 == IF askMax
              THEN Append(c7, Call("snd_pcm_hw_params_get_buffer_size_max", NULL, 0))
              ELSE c7
        bufferReq == BufferRequest(bufferParams, be.bufMax)
        c9 == Append(c8, Call("snd_pcm_hw_params_set_buffer_size_near", H, bufferReq))
        bufferSize == Near(bufferReq, be.bufAdj)
        periodReq == PeriodRequest(audio, bufferParams, bufferSize)
        c10 == Append(c9, Call("snd_pcm_hw_params_set_period_size_near", H, periodReq))
        periodFrames == PeriodNear(periodReq, be.perAdj, bufferSize)
        c11 == Append(c10, Call("snd_pcm_hw_params_get_periods", NULL, 0))
        periods == be.periods
        c12 == Append(c11, Call("snd_pcm_hw_params", H, 0))
    IN  IF Rejects(be, "snd_pcm_open")
        THEN Failed(c1, createError("could not open ALSA device", 0), NULL, FALSE, FALSE)
        ELSE IF Rejects(be, "snd_pcm_hw_params_malloc")
        THEN Failed(c2, createError("could not alloc hw params", be.code), H, fin, FALSE)
        ELSE IF Rejects(be, "snd_pcm_hw_params_any")
        THEN Failed(c3, createError("could not set default hw params", be.code), H, fin, TRUE)
        ELSE IF Rejects(be, "snd_pcm_hw_params_set_access")
        THEN Failed(c4, createError("could not set access params", be.code), H, fin, TRUE)
        ELSE IF Rejects(be, "snd_pcm_hw_params_set_format")
        THEN Failed(c5, createError("could not set format params", be.code), H, fin, TRUE)
        ELSE IF Rejects(be, "snd_pcm_hw_params_set_channels")
        THEN Failed(c6, createError("could not set channels params", be.code), H, fin, TRUE)
        ELSE IF Rejects(be, "snd_pcm_hw_params_set_rate")
        THEN Failed(c7, createError("could not set rate params", be.code), H, fin, TRUE)
        ELSE IF askMax /\ Rejects(be, "snd_pcm_hw_params_get_buffer_size_max")
        THEN Failed(c8, createError("could not get buffer size", be.code), H, fin, TRUE)
        ELSE IF Rejects(be, "snd_pcm_hw_params_set_buffer_size_near")
        THEN Failed(c9, createError("could not set buffer size", be.code), H, fin, TRUE)
        ELSE IF Rejects(be, "snd_pcm_hw_params_set_period_size_near")
        THEN Failed(c10, createError("could not set period size", be.code), H, fin, TRUE)
        ELSE IF Rejects(be, "snd_pcm_hw_params_get_periods")
        THEN Failed(c11, createError("could not get periods", be.code), H, fin, TRUE)
        ELSE IF Rejects(be, "snd_pcm_hw_params")
        THEN Failed(c12, createError("could not set hw params", be.code), H, fin, TRUE)
        ELSE [calls |-> Append(c12, Call("snd_pcm_hw_params_free", NULL, 0)),
              err |-> NoErr, h |-> H, finalizer |-> fin, Audio |-> audio,
              BufferParams |-> Layout(bufferParams, bufferSize, periodFrames, periods),
              frames |-> periodFrames]

(* part_000's createDevice is initDevice line for line; it stores the      *)
(* channels, format and rate in three fields instead of one Audio record.  *)
createDevice(audio, pb, bufferParams, be) == initDevice(audio, pb, bufferParams, be)

----------------------------------------------------------------------------
(* Close.  ret is the status of snd_pcm_close; crash says the library      *)
(* aborted in snd_pcm_drain (possible only on a handle already released).  *)
(* clearFinalizer: runtime.SetFinalizer(d, nil) was reached.               *)

CloseResult(calls, err, hh, clear, out) ==
    [calls |-> calls, err |-> err, h |-> hh, clearFinalizer |-> clear, out |-> out]

alsa_Close(hh, ret, crash) ==
    IF hh # NULL
    THEN LET c1 == <<Call("snd_pcm_drain", hh, 0)>>
             c2 == Append(c1, Call("snd_pcm_close", hh, 0))
         IN  IF crash
             THEN CloseResult(c1, NoErr, hh, FALSE, "abort")
             ELSE IF ret < 0
             THEN CloseResult(c2, createError("Error closing device handle", ret),
                              hh, FALSE, "return")
             ELSE CloseResult(c2, NoErr, NULL, TRUE, "return")
    ELSE CloseResult(<<>>, NoErr, hh, TRUE, "return")

part000_Close(hh, ret, crash) ==
    IF hh # NULL
    THEN LET c1 == <<Call("snd_pcm_drain", hh, 0)>>
             c2 == Append(c1, Call("snd_pcm_close", hh, 0))
         IN  IF crash
             THEN CloseResult(c1, NoErr, hh, FALSE, "abort")
             ELSE CloseResult(c2, NoErr, NULL, TRUE, "return")
    ELSE CloseResult(<<>>, NoErr, hh, TRUE, "return")

Close(v, hh, ret, crash) ==
    IF v = "alsa" THEN alsa_Close(hh, ret, crash) ELSE part000_Close(hh, ret, crash)

----------------------------------------------------------------------------
(* Transfers.  A buffer is what the caller passes: whether it is an array  *)
(* or slice, the reflect.Kind of its elements and its length in elements   *)
(* (alsa.go takes []byte: elements of kind Uint8).  ret is the status of   *)
(* the blocking transfer, crash says the library aborted in it.            *)

Buffer(array, elem, len) == [array |-> array, elem |-> elem, len |-> len]
NoBuffer == Buffer(FALSE, "none", 0)

(* Byte width of one element of the given kind. *)
KindWidth(kind) ==
    CASE kind \in {"Int8", "Uint8"} -> 1
      [] kind \in {"Int16", "Uint16"} -> 2
      [] kind \in {"Int32", "Float32"} -> 4
      [] kind = "Float64" -> 8
      [] OTHER -> 0

TransferResult(calls, samples, err, out) ==
    [calls |-> calls, samples |-> samples, err |-> err, out |-> out]

PanicIndex == [msg |-> "panic: index out of range", code |-> 0]

(* Seeded fault: every negative status re-arms the device. *)
alsa_ReadRearmAlways(hh, audio, buffer, ret, crash) ==
    LET nframes == buffer.len \div audio.Channels
        c1 == <<Call("snd_pcm_readi", hh, nframes)>>
    IN  IF buffer.len = 0
        THEN TransferResult(<<>>, 0, PanicIndex, "panic")
        ELSE IF crash
        THEN TransferResult(c1, 0, NoErr, "abort")
        ELSE IF ret = -EPIPE
        THEN TransferResult(Append(c1, Call("snd_pcm_prepare", hh, 0)), 0,
                            ErrOverrun, "return")
        ELSE IF ret < 0
        THEN TransferResult(Append(c1, Call("snd_pcm_prepare", hh, 0)), 0,
                            createError("read error", ret), "return")
        ELSE TransferResult(c1, ret * audio.Channels, NoErr, "return")

alsa_Read(hh, audio, buffer, ret, crash) ==
    LET nframes == buffer.len \div audio.Channels
        c1 == <<Call("snd_pcm_readi", hh, nframes)>>
    IN  IF buffer.len = 0
        THEN TransferResult(<<>>, 0, PanicIndex, "panic")
        ELSE IF crash
        THEN TransferResult(c1, 0, NoErr, "abort")
        ELSE IF ret = -EPIPE
        THEN TransferResult(Append(c1, Call("snd_pcm_prepare", hh, 0)), 0,
                            ErrOverrun, "return")
        ELSE IF ret < 0
        THEN TransferResult(c1, 0, createError("read error", ret), "return")
        ELSE TransferResult(c1, ret * audio.Channels, NoErr, "return")

(* Seeded fault: after the re-arm the buffer is submitted again. *)
alsa_WriteResubmit(hh, audio, buffer, ret, crash) ==
    LET nframes == buffer.len \div audio.Channels
        c1 == <<Call("snd_pcm_writei", hh, nframes)>>
    IN  IF buffer.len = 0
        THEN TransferResult(<<>>, 0, PanicIndex, "panic")
        ELSE IF crash
        THEN TransferResult(c1, 0, NoErr, "abort")
        ELSE IF ret = -EPIPE
        THEN TransferResult(c1 \o <<Call("snd_pcm_prepare", hh, 0),
                                    Call("snd_pcm_writei", hh, nframes)>>, 0,
                            ErrUnderrun, "return")
        ELSE IF ret < 0
        THEN TransferResult(c1, 0, createError("write error", ret), "return")
        ELSE TransferResult(c1, ret * audio.Channels, NoErr, "return")

alsa_Write(hh, audio, buffer, ret, crash) ==
    LET nframes == buffer.len \div audio.Channels
        c1 == <<Call("snd_pcm_writei", hh, nframes)>>
    IN  IF buffer.len = 0
        THEN TransferResult(<<>>, 0, PanicIndex, "panic")
        ELSE IF crash
        THEN TransferResult(c1, 0, NoErr, "abort")
        ELSE IF ret = -EPIPE
        THEN TransferResult(Append(c1, Call("snd_pcm_prepare", hh, 0)), 0,
                            ErrUnderrun, "return")
        ELSE IF ret < 0
        THEN TransferResult(c1, 0, createError("write error", ret), "return")
        ELSE TransferResult(c1, ret * audio.Channels, NoErr, "return")

(* The switch on bufferType.Elem().Kind(): ErrSize when the kind is one of *)
(* the five handled and its width is not the format's, `unsupported` for   *)
(* any other kind, NoErr when the buffer passes.                           *)
part000_checkElem(kind, size, unsupported) ==
    CASE kind = "Int8" -> IF size # 1 THEN ErrSize ELSE NoErr
      [] kind = "Int16" -> IF size # 2 THEN ErrSize ELSE NoErr
      [] kind \in {"Int32", "Float32"} -> IF size # 4 THEN ErrSize ELSE NoErr
      [] kind = "Float64" -> IF size # 8 THEN ErrSize ELSE NoErr
      [] OTHER -> createError(unsupported, 0)

(* Seeded fault: the frame count is returned without the channel count. *)
part000_ReadFrames(hh, audio, buffer, ret, crash) ==
    LET chk == part000_checkElem(buffer.elem, formatSampleSize(audio.SampleFormat),
                                 "Unsupported sample format")
        nframes == buffer.len \div audio.Channels
        c1 == <<Call("snd_pcm_readi", hh, nframes)>>
    IN  IF ~buffer.array
        THEN TransferResult(<<>>, 0, createError("Read requires an array type", 0), "return")
        ELSE IF chk # NoErr
        THEN TransferResult(<<>>, 0, chk, "return")
        ELSE IF buffer.len = 0
        THEN TransferResult(<<>>, 0, PanicIndex, "panic")
        ELSE IF crash
        THEN TransferResult(c1, 0, NoErr, "abort")
        ELSE IF ret = -EPIPE
        THEN TransferResult(Append(c1, Call("snd_pcm_prepare", hh, 0)), 0,
                            ErrOverrun, "return")
        ELSE IF ret < 0
        THEN TransferResult(c1, 0, createError("read error", ret), "return")
        ELSE TransferResult(c1, ret, NoErr, "return")

part000_Read(hh, audio, buffer, ret, crash) ==
    LET chk == part000_checkElem(buffer.elem, formatSampleSize(audio.SampleFormat),
                                 "Unsupported sample format")
        nframes == buffer.len \div audio.Channels
        c1 == <<Call("snd_pcm_readi", hh, nframes)>>
    IN  IF ~buffer.array
        THEN TransferResult(<<>>, 0, createError("Read requires an array type", 0), "return")
        ELSE IF chk # NoErr
        THEN TransferResult(<<>>, 0, chk, "return")
        ELSE IF buffer.len = 0
        THEN TransferResult(<<>>, 0, PanicIndex, "panic")
        ELSE IF crash
        THEN TransferResult(c1, 0, NoErr, "abort")
        ELSE IF ret = -EPIPE
        THEN TransferResult(Append(c1, Call("snd_pcm_prepare", hh, 0)), 0,
                            ErrOverrun, "return")
        ELSE IF ret < 0
        THEN TransferResult(c1, 0, createError("read error", ret), "return")
        ELSE TransferResult(c1, ret * audio.Channels, NoErr, "return")

part000_Write(hh, audio, buffer, ret, crash) ==
    LET chk == part000_checkElem(buffer.elem, formatSampleSize(audio.SampleFormat),
                                 "Write does not support this format")
        nframes == buffer.len \div audio.Channels
        c1 == <<Call("snd_pcm_writei", hh, nframes)>>
    IN  IF ~buffer.array
        THEN TransferResult(<<>>, 0, createError("Write requires an array type", 0), "return")
        ELSE IF chk # NoErr
        THEN TransferResult(<<>>, 0, chk, "return")
        ELSE IF buffer.len = 0
        THEN TransferResult(<<>>, 0, PanicIndex, "panic")
        ELSE IF crash
        THEN TransferResult(c1, 0, NoErr, "abort")
        ELSE IF ret = -EPIPE
        THEN TransferResult(Append(c1, Call("snd_pcm_prepare", hh, 0)), 0,
                            ErrUnderrun, "return")
        ELSE IF ret < 0
        THEN TransferResult(c1, 0, createError("write error", ret), "return")
        ELSE TransferResult(c1, ret * audio.Channels, NoErr, "return")

Read(v, hh, audio, buffer, ret, crash) ==
    IF v = "alsa" THEN alsa_Read(hh, audio, buffer, ret, crash)
    ELSE part000_Read(hh, audio, buffer, ret, crash)

Write(v, hh, audio, buffer, ret, crash) ==
    IF v = "alsa" THEN alsa_Write(hh, audio, buffer, ret, crash)
    ELSE part000_Write(hh, audio, buffer, ret, crash)

(* Drop is the same in both variants. *)
Drop(hh, ret, crash) ==
    LET c1 == <<Call("snd_pcm_drop", hh, 0)>>
    IN  IF crash
        THEN TransferResult(c1, 0, NoErr, "abort")
        ELSE IF ret < 0
        THEN TransferResult(c1, 0, createError("Could not drop the stream", ret), "return")
        ELSE TransferResult(c1, 0, NoErr, "return")

----------------------------------------------------------------------------
(* Master volume.  SetMasterVolume and GetMasterVolume use no field of    *)
(* the device: each call opens its own mixer handle.  A call is modelled  *)
(* in three steps so that calls of several callers interleave: the mixer  *)
(* open; attach to range query; the volume call and the return.  A call   *)
(* in flight, and a call that returned, is a record of its locals, the    *)
(* backend calls it made and its result.                                  *)

VolCall(op, at, volume, handle, sid, elem, min, max, cur, attachRet, failAt, calls, result, err, out) ==
    [op |-> op, pc |-> at, volume |-> volume, handle |-> handle, sid |-> sid,
     elem |-> elem, min |-> min, max |-> max, cur |-> cur, attachRet |-> attachRet,
     failAt |-> failAt, calls |-> calls, result |-> result, err |-> err, out |-> out]

VolIdle ==
    VolCall("none", "idle", 0, NULL, FALSE, NULL, 0, 0, 0, 0, "none", <<>>, 0, NoErr,
            "return")

ELEM == "elem"   \* the element snd_mixer_find_selem returns when it finds one

Abs(x) == IF x < 0 THEN -x ELSE x

(* Integer division of Go and C: the quotient is truncated toward zero. *)
TruncDiv(a, b) ==
    LET q == Abs(a) \div Abs(b)
    IN  IF (a < 0) # (b < 0) THEN -q ELSE q

(* Seeded fault: a return before the id allocation skips the mixer close. *)
VolDeferredLate(handle, sid) ==
    IF sid
    THEN <<Call("snd_mixer_selem_id_free", NULL, 0), Call("snd_mixer_close", handle, 0)>>
    ELSE <<>>

(* The deferred calls run at a return after the mixer open succeeded:     *)
(* snd_mixer_selem_id_free when the id was allocated, then                *)
(* snd_mixer_close.                                                       *)
VolDeferred(handle, sid) ==
    IF sid
    THEN <<Call("snd_mixer_selem_id_free", NULL, 0), Call("snd_mixer_close", handle, 0)>>
    ELSE <<Call("snd_mixer_close", handle, 0)>>

(* The call returns err (and result): its deferred calls run. *)
VolReturn(p, calls, sid, result, err, failAt) ==
    [p EXCEPT !.pc = "idle", !.sid = sid, !.calls = calls \o VolDeferred(p.handle, sid),
              !.result = result, !.err = err, !.failAt = failAt]

(* The library aborts the process inside a call. *)
VolAbort(p, calls, sid) ==
    [p EXCEPT !.pc = "idle", !.sid = sid, !.calls = calls, !.out = "abort"]

(* A Go run-time panic: the deferred calls run while it unwinds. *)
VolPanic(p, calls) ==
    [p EXCEPT !.pc = "idle", !.calls = calls \o VolDeferred(p.handle, p.sid),
              !.err = [msg |-> "panic: integer divide by zero", code |-> 0],
              !.out = "panic"]

(* snd_mixer_open: ret < 0 returns the error, nothing is deferred. *)
VolOpenStep(op, volume, ret, handle) ==
    LET c1 == <<Call("snd_mixer_open", NULL, 0)>>
        p == [VolIdle EXCEPT !.op = op, !.volume = volume, !.calls = c1]
    IN  IF ret < 0
        THEN [p EXCEPT !.err = createError("could not open mixer", ret),
                       !.failAt = "snd_mixer_open"]
        ELSE [p EXCEPT !.pc = "opened", !.handle = handle]

(* From snd_mixer_attach to the range query.  attachRet is the status of  *)
(* snd_mixer_attach (not looked at by the code), failAt the later step    *)
(* the backend rejects with status code, found says whether               *)
(* snd_mixer_find_selem finds the element, rmin and rmax are the range    *)
(* the backend reports.  register says whether the variant calls          *)
(* snd_mixer_selem_register.                                              *)
VolLookupStep(p, register, attachRet, failAt, code, found, rmin, rmax) ==
    LET q == [p EXCEPT !.attachRet = attachRet]
        c1 == Append(p.calls, Call("snd_mixer_attach", p.handle, 0))
        c2 == IF register
              THEN Append(c1, Call("snd_mixer_selem_register", p.handle, 0))
              ELSE c1
        c3 == Append(c2, Call("snd_mixer_load", p.handle, 0))
        c4 == Append(c3, Call("snd_mixer_selem_id_malloc", NULL, 0))
        c5 == Append(c4, Call("snd_mixer_find_selem", p.handle, 0))
        elem == IF found THEN ELEM ELSE NULL
        c6 == Append(c5, Call("snd_mixer_selem_get_playback_volume_range", elem, 0))
    IN  IF register /\ failAt = "snd_mixer_selem_register"
        THEN VolReturn(q, c2, FALSE, 0,
                       createError("could not register simple element class", code),
                       failAt)
        ELSE IF failAt = "snd_mixer_load"
        THEN VolReturn(q, c3, FALSE, 0, createError("could not load mixer handle", code),
                       failAt)
        ELSE IF failAt = "snd_mixer_selem_id_malloc"
        THEN VolReturn(q, c4, FALSE, 0,
                       createError("could not allocate simple element pointer", code),
                       failAt)
        ELSE IF elem = NULL
        THEN VolAbort(q, c6, TRUE)
        ELSE IF failAt = "snd_mixer_selem_get_playback_volume_range"
        THEN VolReturn([q EXCEPT !.elem = elem], c6, TRUE, 0,
                       createError("could not get simple element volume range", code),
                       failAt)
        ELSE [q EXCEPT !.pc = "ranged", !.sid = TRUE, !.elem = elem, !.min = rmin,
                       !.max = rmax, !.calls = c6]

(* Seeded fault: the current value is scaled without the offset. *)
GetPercentNoOffset(outvol, min, max) == TruncDiv(100 * outvol, max - min)

(* outvol -= min; max -= min; outvol = 100 * outvol / max *)
GetPercent(outvol, min, max) == TruncDiv(100 * (outvol - min), max - min)

(* alsa.go: total = max - min; vol = vol*total/100 + min *)
alsa_SetNative(volume, min, max) == TruncDiv(volume * (max - min), 100) + min

(* part_000: vol*max/100 *)
part000_SetNative(volume, min, max) == TruncDiv(volume * max, 100)

SetNative(v, volume, min, max) ==
    IF v = "alsa" THEN alsa_SetNative(volume, min, max)
    ELSE part000_SetNative(volume, min, max)

(* SetMasterVolume from the computation of vol to the return. *)
VolSetStep(p, v, ret) ==
    LET native == SetNative(v, p.volume, p.min, p.max)
        c1 == Append(p.calls, Call("snd_mixer_selem_set_playback_volume_all", p.elem,
                                   native))
    IN  IF ret < 0
        THEN VolReturn(p, c1, TRUE, 0, createError("could not set playback volume", ret),
                       "snd_mixer_selem_set_playback_volume_all")
        ELSE VolReturn(p, c1, TRUE, 0, NoErr, "none")

(* GetMasterVolume from the volume query to the return; outvol is the     *)
(* value the backend reports.                                             *)
VolGetStep(p, ret, outvol) ==
    LET c1 == Append(p.calls, Call("snd_mixer_selem_get_playback_volume", p.elem, 0))
        q == [p EXCEPT !.cur = outvol]
    IN  IF ret < 0
        THEN VolReturn(p, c1, TRUE, 0, createError("could not get playback volume", ret),
                       "snd_mixer_selem_get_playback_volume")
        ELSE IF p.max - p.min = 0
        THEN VolPanic(q, c1)
        ELSE VolReturn(q, c1, TRUE, GetPercent(outvol, p.min, p.max), NoErr, "none")

----------------------------------------------------------------------------
(* Inputs. *)

TestFormats == {"S8", "S16LE", "Float64LE"}

TestAudio ==
    {[Channels |-> c, SamplingRate |-> 16, SampleFormat |-> f] :
        c \in 1..MaxChannels, f \in TestFormats}

Hint(b, p, n) == [BufferFrames |-> b, PeriodFrames |-> p, Periods |-> n]

Hints == {Hint(0, 0, 0), Hint(4, 0, 2)}

Backends ==
    [failAt : StepNames \cup {"none"}, code : OtherErrs, bufMax : {8},
     bufAdj : {0}, perAdj : {0}, periods : {4}]

TestKinds == {"Int8", "Int16", "Float64", "Uint8"}

Buffers(v) ==
    IF v = "alsa"
    THEN {Buffer(TRUE, "Uint8", n) : n \in 0..MaxLen}
    ELSE {Buffer(TRUE, k, n) : k \in TestKinds, n \in 0..MaxLen}
         \cup {Buffer(FALSE, "Int", 0)}

Rets == {-EPIPE} \cup OtherErrs \cup 0..MaxLen

(* What the library can do with a call on handle hh that asks for nframes  *)
(* frames: on the open handle any status, at most nframes frames; on a nil *)
(* handle it aborts (assert) or reports an error; on a handle that was     *)
(* already passed to snd_pcm_close (use after free) anything.              *)
BackendCan(hh, released, nframes, ret, crash) ==
    IF hh = NULL
    THEN crash \/ ret \in OtherErrs
    ELSE IF released > 0
    THEN TRUE
    ELSE ~crash /\ ret <= nframes

----------------------------------------------------------------------------
(* State machine. *)

Op(name, buffer, ret, failAt, calls, samples, err, out) ==
    [name |-> name, buffer |-> buffer, ret |-> ret, failAt |-> failAt,
     calls |-> calls, samples |-> samples, err |-> err, out |-> out]

NegIn(audio, bufferParams, be) == [audio |-> audio, hint |-> bufferParams, be |-> be]

NoNegIn ==
    NegIn(NoAudio, NoBufferParams,
          [failAt |-> "none", code |-> 0, bufMax |-> 0, bufAdj |-> 0, perAdj |-> 0,
           periods |-> 0])

NoOp == Op("none", NoBuffer, 0, "none", <<>>, 0, NoErr, "return")

Mixer(min, max, vol) == [min |-> min, max |-> max, vol |-> vol]

Callers == {"a", "b"}

(* What vprev keeps of an event. *)
VolSummary(p) ==
    [op |-> p.op, volume |-> p.volume, ok |-> p.err = NoErr /\ p.out = "return"]

Init ==
    /\ variant \in Variants
    /\ pc = "init"
    /\ playback = FALSE
    /\ reachable = FALSE
    /\ h = NULL
    /\ finalizer = FALSE
    /\ Audio = NoAudio
    /\ BufferParams = NoBufferParams
    /\ frames = 0
    /\ closeCount = 0
    /\ lastOp = NoOp
    /\ afterXrun = FALSE
    /\ negIn = NoNegIn
    /\ mixer = Mixer(0, 100, 50)
    /\ vproc = [c \in Callers |-> VolIdle]
    /\ vlast = VolIdle
    /\ vprev = VolSummary(VolIdle)
    /\ mixerOpen = {}

Running == pc = "built" /\ lastOp.out # "abort"

XrunErr(op) == op.err \in {ErrOverrun, ErrUnderrun}

CountCalls(calls, fn) == Len(SelectSeq(calls, LAMBDA c : c.fn = fn))

(* NewCaptureDevice / NewPlaybackDevice: c = new(...); initDevice; on an   *)
(* error nil is returned and the device is unreachable.                    *)
Construct(name, pb, audios, hints, backends) ==
    /\ pc = "init"
    /\ \E audio \in audios, bufferParams \in hints, be \in backends :
         LET r == IF variant = "alsa"
                  THEN initDevice(audio, pb, bufferParams, be)
                  ELSE createDevice(audio, pb, bufferParams, be)
         IN  /\ pc' = "built"
             /\ playback' = pb
             /\ reachable' = (r.err = NoErr)
             /\ h' = r.h
             /\ finalizer' = r.finalizer
             /\ Audio' = r.Audio
             /\ BufferParams' = r.BufferParams
             /\ frames' = r.frames
             /\ lastOp' = Op(name, NoBuffer, 0, be.failAt, r.calls, 0, r.err, "return")
             /\ negIn' = NegIn(audio, bufferParams, be)
    /\ UNCHANGED <<variant, closeCount, afterXrun>>
    /\ UNCHANGED volvars

NewCaptureDevice == Construct("NewCaptureDevice", FALSE, TestAudio, Hints, Backends)

NewPlaybackDevice == Construct("NewPlaybackDevice", TRUE, TestAudio, Hints, Backends)

Transfer(name, r, buffer, ret) ==
    /\ lastOp' = Op(name, buffer, IF r.calls = <<>> THEN 0 ELSE ret, "none",
                    r.calls, r.samples, r.err, r.out)
    /\ afterXrun' = XrunErr(lastOp)
    /\ UNCHANGED <<variant, pc, playback, reachable, h, finalizer, Audio,
                   BufferParams, frames, closeCount, negIn>>
    /\ UNCHANGED volvars

CallRead ==
    /\ Running /\ reachable /\ ~playback
    /\ \E buffer \in Buffers(variant), ret \in Rets, crash \in BOOLEAN :
         /\ BackendCan(h, closeCount, buffer.len \div Audio.Channels, ret, crash)
         /\ Transfer("Read", Read(variant, h, Audio, buffer, ret, crash), buffer,
                     IF crash THEN 0 ELSE ret)

CallWrite ==
    /\ Running /\ reachable /\ playback
    /\ \E buffer \in Buffers(variant), ret \in Rets, crash \in BOOLEAN :
         /\ BackendCan(h, closeCount, buffer.len \div Audio.Channels, ret, crash)
         /\ Transfer("Write", Write(variant, h, Audio, buffer, ret, crash), buffer,
                     IF crash THEN 0 ELSE ret)

CallDrop ==
    /\ Running /\ reachable /\ playback
    /\ \E ret \in {0} \cup OtherErrs, crash \in BOOLEAN :
         /\ BackendCan(h, closeCount, 0, ret, crash)
         /\ Transfer("Drop", Drop(h, ret, crash), NoBuffer, IF crash THEN 0 ELSE ret)

(* One run of Close on the device, from the caller or from the finalizer. *)
RunClose(name, ret, crash) ==
    LET r == Close(variant, h, ret, crash)
        n == CountCalls(r.calls, "snd_pcm_close")
    IN  /\ closeCount + n <= MaxRelease
        /\ h' = r.h
        /\ closeCount' = closeCount + n
        /\ finalizer' = IF name = "finalizer" \/ r.clearFinalizer THEN FALSE ELSE finalizer
        /\ lastOp' = Op(name, NoBuffer, IF n = 0 THEN 0 ELSE ret, "none", r.calls, 0,
                        r.err, r.out)
        /\ afterXrun' = XrunErr(lastOp)
        /\ UNCHANGED <<variant, pc, playback, reachable, Audio, BufferParams, frames,
                       negIn>>
        /\ UNCHANGED volvars

CloseInputs(ret, crash) ==
    /\ ret \in {0} \cup OtherErrs
    /\ crash \in BOOLEAN
    /\ crash => (h # NULL /\ closeCount > 0)
    /\ (h = NULL \/ crash) => ret = 0

CallClose ==
    /\ Running /\ reachable
    /\ \E ret \in {0} \cup OtherErrs, crash \in BOOLEAN :
         CloseInputs(ret, crash) /\ RunClose("Close", ret, crash)

(* The caller drops its last reference without calling Close. *)
Abandon ==
    /\ Running /\ reachable
    /\ reachable' = FALSE
    /\ UNCHANGED <<variant, pc, playback, h, finalizer, Audio, BufferParams, frames,
                   closeCount, lastOp, afterXrun, negIn>>
    /\ UNCHANGED volvars

(* The runtime finds the device unreachable with a finalizer set: it       *)
(* clears the finalizer and runs it once.                                  *)
RunFinalizer ==
    /\ Running /\ ~reachable /\ finalizer
    /\ \E ret \in {0} \cup OtherErrs, crash \in BOOLEAN :
         CloseInputs(ret, crash) /\ RunClose("finalizer", ret, crash)

Next ==
    \/ NewCaptureDevice
    \/ NewPlaybackDevice
    \/ CallRead
    \/ CallWrite
    \/ CallDrop
    \/ CallClose
    \/ Abandon
    \/ RunFinalizer

Spec == Init /\ [][Next]_vars

(* Finalizers of unreachable devices eventually run. *)
LiveSpec == Spec /\ WF_vars(RunFinalizer)

----------------------------------------------------------------------------
(* Negotiation on its own: the constructors over a wide set of rates,     *)
(* hints and backend answers.                                             *)

NegAudio ==
    {[Channels |-> c, SamplingRate |-> r, SampleFormat |-> "S16LE"] :
        c \in 1..MaxChannels, r \in {20, 80}}

NegHints == {Hint(b, p, n) : b \in {0, 4, 7}, p \in {-1, 0, 3}, n \in {-1, 0, 2, 3}}

NegBackends ==
    [failAt : {"none", "snd_pcm_hw_params"},
     code : OtherErrs, bufMax : {6, 8}, bufAdj : {-1, 0, 1}, perAdj : {-1, 0, 2},
     periods : {2, 3}]

NegCapture == Construct("NewCaptureDevice", FALSE, NegAudio, NegHints, NegBackends)

NegPlayback == Construct("NewPlaybackDevice", TRUE, NegAudio, NegHints, NegBackends)

NegNext == NegCapture \/ NegPlayback

NegSpec == Init /\ [][NegNext]_vars

----------------------------------------------------------------------------
(* Master volume calls.  The backend's control changes only through the   *)
(* calls below and through Reconfigure.                                   *)

VolRunning == vlast.out # "abort"

VolOps == {"SetMasterVolume", "GetMasterVolume"}

VolSteps ==
    {"snd_mixer_selem_register", "snd_mixer_load", "snd_mixer_selem_id_malloc",
     "snd_mixer_selem_get_playback_volume_range"}

ClosedBy(calls) ==
    {calls[i].h : i \in {j \in 1..Len(calls) : calls[j].fn = "snd_mixer_close"}}

(* The call of caller c is over: it returned, panicked or the process     *)
(* was aborted.                                                           *)
VolComplete(c, p) ==
    /\ vlast' = p
    /\ vprev' = VolSummary(vlast)
    /\ vproc' = [vproc EXCEPT ![c] = VolIdle]
    /\ mixerOpen' = mixerOpen \ ClosedBy(p.calls)

(* The backend's snd_mixer_selem_set_playback_volume_all: a value inside  *)
(* the range is stored; one outside is dropped or clamped.                *)
BackendSet(m, native, oor) ==
    IF m.min <= native /\ native <= m.max
    THEN [m EXCEPT !.vol = native]
    ELSE IF oor = "ignore"
    THEN m
    ELSE [m EXCEPT !.vol = IF native < m.min THEN m.min ELSE m.max]

(* The handle snd_mixer_open stores: the first one not in use. *)
FreeHandle(handles) ==
    handles[CHOOSE i \in 1..Len(handles) :
                /\ handles[i] \notin mixerOpen
                /\ \A j \in 1..(i - 1) : handles[j] \in mixerOpen]

VolOpenBy(c, percents, handles) ==
    /\ VolRunning /\ vproc[c].pc = "idle"
    /\ \E i \in 1..Len(handles) : handles[i] \notin mixerOpen
    /\ \E op \in VolOps, ret \in {0} \cup OtherErrs :
       \E volume \in IF op = "SetMasterVolume" THEN percents ELSE {0} :
         LET hh == FreeHandle(handles)
             p == VolOpenStep(op, volume, ret, hh)
         IN  IF p.pc = "idle"
             THEN VolComplete(c, p)
             ELSE /\ vproc' = [vproc EXCEPT ![c] = p]
                  /\ mixerOpen' = mixerOpen \cup {hh}
                  /\ UNCHANGED <<vlast, vprev>>
    /\ UNCHANGED <<devvars, mixer>>

VolLookupBy(c) ==
    /\ VolRunning /\ vproc[c].pc = "opened"
    /\ \E attachRet \in {0} \cup OtherErrs, failAt \in VolSteps \cup {"none"},
          code \in OtherErrs, found \in BOOLEAN :
         /\ attachRet < 0 => ~found
         /\ failAt = "snd_mixer_selem_register" => variant = "alsa"
         /\ LET p == VolLookupStep(vproc[c], variant = "alsa", attachRet, failAt, code,
                                   found, mixer.min, mixer.max)
            IN  IF p.pc = "idle"
                THEN VolComplete(c, p)
                ELSE /\ vproc' = [vproc EXCEPT ![c] = p]
                     /\ UNCHANGED <<vlast, vprev, mixerOpen>>
    /\ UNCHANGED <<devvars, mixer>>

VolApplyBy(c) ==
    /\ VolRunning /\ vproc[c].pc = "ranged"
    /\ \E ret \in {0} \cup OtherErrs, oor \in {"ignore", "clamp"} :
         LET p == vproc[c]
         IN  IF p.op = "SetMasterVolume"
             THEN /\ VolComplete(c, VolSetStep(p, variant, ret))
                  /\ mixer' = IF ret < 0 THEN mixer
                              ELSE BackendSet(mixer, SetNative(variant, p.volume, p.min,
                                                               p.max), oor)
             ELSE /\ VolComplete(c, VolGetStep(p, ret, mixer.vol))
                  /\ mixer' = mixer
    /\ UNCHANGED devvars

(* The control is changed outside the program: another range, another     *)
(* value.  The range and the value reported to one call are those of one  *)
(* moment, so no call is between its range query and its volume call.     *)
ReconfigureTo(states) ==
    /\ VolRunning
    /\ \A c \in Callers : vproc[c].pc # "ranged"
    /\ \E m \in states :
         /\ m # mixer
         /\ mixer' = m
    /\ vlast' = [VolIdle EXCEPT !.op = "Reconfigure"]
    /\ vprev' = VolSummary(vlast)
    /\ UNCHANGED <<devvars, vproc, mixerOpen>>

(* One caller, many ranges and percentages. *)
VolPercents == {0, 50, 100}

MixerRanges == {<<0, 3>>, <<-5, 5>>, <<10, 20>>, <<4, 4>>}

MixerStates ==
    UNION {{Mixer(r[1], r[2], v) : v \in {r[1], (r[1] + r[2]) \div 2, r[2]}} :
              r \in MixerRanges}

VolOpen == VolOpenBy("a", VolPercents, <<"m1">>)

VolLookup == VolLookupBy("a")

VolApply == VolApplyBy("a")

Reconfigure == ReconfigureTo(MixerStates)

VolNext == VolOpen \/ VolLookup \/ VolApply \/ Reconfigure

VolSpec == Init /\ [][VolNext]_vars

(* Two callers whose calls interleave step by step. *)
ConcPercents == {50}

MixerHandles == <<"m1", "m2">>

ConcOpen == \E c \in Callers : VolOpenBy(c, ConcPercents, MixerHandles)

ConcLookup == \E c \in Callers : VolLookupBy(c)

ConcApply == \E c \in Callers : VolApplyBy(c)

ConcNext == ConcOpen \/ ConcLookup \/ ConcApply

ConcSpec == Init /\ [][ConcNext]_vars

----------------------------------------------------------------------------
(* Properties. *)

IsTransfer(op) == op.name \in {"Read", "Write"}
IsConstructor(op) == op.name \in {"NewCaptureDevice", "NewPlaybackDevice"}

TransferFn(op) == IF op.name = "Read" THEN "snd_pcm_readi" ELSE "snd_pcm_writei"
XrunOf(op) == IF op.name = "Read" THEN ErrOverrun ELSE ErrUnderrun

(* The operation issued its blocking transfer and the library returned. *)
Transferred(op) == IsTransfer(op) /\ op.calls # <<>> /\ op.out = "return"

(* A buffer the variant's Read / Write accepts for the negotiated format. *)
SupportedKinds == {"Int8", "Int16", "Int32", "Float32", "Float64"}
BufferFits(v, buffer, audio) ==
    /\ buffer.array
    /\ buffer.len > 0
    /\ \/ v = "alsa"
       \/ /\ buffer.elem \in SupportedKinds
          /\ KindWidth(buffer.elem) = formatSampleSize(audio.SampleFormat)

(* C1: when the blocking transfer returns the pipe error, Read returns 0  *)
(* samples with ErrOverrun and Write 0 samples with ErrUnderrun, and the  *)
(* calls issued are exactly the transfer followed by one prepare on the   *)
(* same handle: no second transfer.                                       *)
C1_PipeErrorRearmsOnce ==
    (Transferred(lastOp) /\ lastOp.ret = -EPIPE) =>
        /\ lastOp.samples = 0
        /\ lastOp.err = XrunOf(lastOp)
        /\ Len(lastOp.calls) = 2
        /\ lastOp.calls[1].fn = TransferFn(lastOp)
        /\ lastOp.calls[2] = Call("snd_pcm_prepare", lastOp.calls[1].h, 0)
        /\ lastOp.calls[1].h = h

C1_Witness ==
    /\ lastOp.name = "Write"
    /\ lastOp.ret = -EPIPE
    /\ lastOp.err = ErrUnderrun
    /\ lastOp.buffer.len = 2

(* C2: after a Read or Write returned the overrun / underrun error the    *)
(* device still holds the handle obtained at open and the last call made  *)
(* on it was the prepare; the next Read or Write, given a buffer the      *)
(* device accepts, issues the transfer on that handle and nothing else    *)
(* (no open, no negotiation), and when the backend reports f >= 0 frames  *)
(* it returns f times the channel count with no error.                    *)
C2_ResumeAfterXrun ==
    /\ XrunErr(lastOp) =>
          /\ h = H
          /\ lastOp.calls[Len(lastOp.calls)] = Call("snd_pcm_prepare", H, 0)
    /\ (afterXrun /\ IsTransfer(lastOp)) =>
          /\ h = H
          /\ (BufferFits(variant, lastOp.buffer, Audio) /\ lastOp.out # "abort") =>
                /\ lastOp.calls # <<>>
                /\ lastOp.calls[1] =
                      Call(TransferFn(lastOp), H, lastOp.buffer.len \div Audio.Channels)
          /\ (Transferred(lastOp) /\ lastOp.ret >= 0) =>
                /\ Len(lastOp.calls) = 1
                /\ lastOp.samples = lastOp.ret * Audio.Channels
                /\ lastOp.err = NoErr

C2_Witness ==
    /\ afterXrun
    /\ lastOp.name = "Read"
    /\ Transferred(lastOp)
    /\ lastOp.ret = 2
    /\ Audio.Channels = 2
    /\ lastOp.samples = 4
    /\ lastOp.err = NoErr

(* A step that ran Close from the caller. *)
CloseStep ==
    /\ lastOp'.name = "Close"
    /\ (lastOp' # lastOp \/ closeCount' # closeCount \/ h' # h)

(* C3: a Close that follows a Close returns no error, issues no drain and *)
(* no release, and leaves the handle nil.                                 *)
C3_SecondCloseIsNoOp ==
    [][(lastOp.name = "Close" /\ lastOp.out = "return" /\ CloseStep) =>
           /\ lastOp'.err = NoErr
           /\ lastOp'.calls = <<>>
           /\ h' = NULL]_vars

(* C4: the release call is issued at most once on the handle obtained at  *)
(* open, and an explicit Close revokes the finalizer.                     *)
C4_ReleasedAtMostOnce ==
    /\ closeCount <= 1
    /\ (lastOp.name = "Close" /\ lastOp.out = "return") => ~finalizer

(* C5: a handle obtained at open and held by a device the caller cannot   *)
(* reach (the constructor failed after the open, or the caller abandoned  *)
(* the device unclosed) is eventually drained and released by the         *)
(* finalizer.                                                             *)
Leaked == pc = "built" /\ h # NULL /\ ~reachable /\ closeCount = 0

ReleasedByFinalizer ==
    /\ lastOp.name = "finalizer"
    /\ lastOp.calls = <<Call("snd_pcm_drain", H, 0), Call("snd_pcm_close", H, 0)>>
    /\ closeCount = 1

C5_EventuallyReleased == Leaked ~> ReleasedByFinalizer

C5_Witness ==
    /\ ReleasedByFinalizer
    /\ Audio = NoAudio
    /\ ~reachable

(* C6: when the release call reports an error during Close, Close returns *)
(* an error and the handle is nil afterwards.                             *)
ReleaseFailed(op) ==
    /\ op.name = "Close"
    /\ op.out = "return"
    /\ CountCalls(op.calls, "snd_pcm_close") > 0
    /\ op.ret < 0

C6_CloseFailureClearsHandle ==
    ReleaseFailed(lastOp) => (lastOp.err # NoErr /\ h = NULL)

(* C7: with the handle nil, Read, Write and Drop return an error and make *)
(* no backend call; no transfer call carries a nil handle.                *)
C7_NoTransferOnNilHandle ==
    /\ (lastOp.name \in {"Read", "Write", "Drop"} /\ h = NULL) =>
          /\ lastOp.out = "return"
          /\ lastOp.err # NoErr
          /\ lastOp.calls = <<>>
    /\ \A i \in 1..Len(lastOp.calls) :
          lastOp.calls[i].fn \in {"snd_pcm_readi", "snd_pcm_writei"} =>
              lastOp.calls[i].h # NULL

(* C8: Read and Write given a buffer whose element width differs from the *)
(* byte width of the negotiated format return ErrSize and make no backend *)
(* call.                                                                  *)
C8_SizeMismatchRejected ==
    (/\ IsTransfer(lastOp)
     /\ lastOp.buffer.array
     /\ KindWidth(lastOp.buffer.elem) # formatSampleSize(Audio.SampleFormat)) =>
        /\ lastOp.err = ErrSize
        /\ lastOp.calls = <<>>

(* C9: a buffer holding channels x k samples of the negotiated format     *)
(* (k > 0) makes Read / Write request exactly k frames, and when the      *)
(* backend reports f frames the call returns f x channels and no error.   *)
BufferBytes(buffer) == buffer.len * KindWidth(buffer.elem)
FrameBytes(audio) == audio.Channels * formatSampleSize(audio.SampleFormat)

C9_FramesRequested ==
    (/\ Transferred(lastOp)
     /\ h # NULL /\ closeCount = 0
     /\ BufferBytes(lastOp.buffer) > 0
     /\ BufferBytes(lastOp.buffer) % FrameBytes(Audio) = 0) =>
        /\ lastOp.calls[1].arg = BufferBytes(lastOp.buffer) \div FrameBytes(Audio)
        /\ lastOp.ret >= 0 =>
              /\ lastOp.samples = lastOp.ret * Audio.Channels
              /\ lastOp.err = NoErr

(* C10: negotiation issues open, access, format, channels, rate, buffer   *)
(* size, period size, period-count read-back and commit in that order; at *)
(* the first step the backend rejects nothing later is issued, the        *)
(* constructor returns the error naming that step and no device.          *)
NamedOrder ==
    <<"snd_pcm_open", "snd_pcm_hw_params_set_access", "snd_pcm_hw_params_set_format",
      "snd_pcm_hw_params_set_channels", "snd_pcm_hw_params_set_rate",
      "snd_pcm_hw_params_set_buffer_size_near",
      "snd_pcm_hw_params_set_period_size_near", "snd_pcm_hw_params_get_periods",
      "snd_pcm_hw_params">>

NamedSteps == {NamedOrder[i] : i \in 1..Len(NamedOrder)}

StepMessage(fn) ==
    CASE fn = "snd_pcm_open" -> "could not open ALSA device"
      [] fn = "snd_pcm_hw_params_malloc" -> "could not alloc hw params"
      [] fn = "snd_pcm_hw_params_any" -> "could not set default hw params"
      [] fn = "snd_pcm_hw_params_set_access" -> "could not set access params"
      [] fn = "snd_pcm_hw_params_set_format" -> "could not set format params"
      [] fn = "snd_pcm_hw_params_set_channels" -> "could not set channels params"
      [] fn = "snd_pcm_hw_params_set_rate" -> "could not set rate params"
      [] fn = "snd_pcm_hw_params_get_buffer_size_max" -> "could not get buffer size"
      [] fn = "snd_pcm_hw_params_set_buffer_size_near" -> "could not set buffer size"
      [] fn = "snd_pcm_hw_params_set_period_size_near" -> "could not set period size"
      [] fn = "snd_pcm_hw_params_get_periods" -> "could not get periods"
      [] fn = "snd_pcm_hw_params" -> "could not set hw params"

(* The negotiation calls of a constructor, without the deferred free. *)
NegCalls(op) == SelectSeq(op.calls, LAMBDA c : c.fn # "snd_pcm_hw_params_free")
NamedCalls(op) == SelectSeq(op.calls, LAMBDA c : c.fn \in NamedSteps)

C10_NegotiationOrder ==
    IsConstructor(lastOp) =>
        LET neg == NegCalls(lastOp)
            named == NamedCalls(lastOp)
            asked == \E i \in 1..Len(neg) : neg[i].fn = lastOp.failAt
        IN  /\ Len(named) <= Len(NamedOrder)
            /\ \A i \in 1..Len(named) : named[i].fn = NamedOrder[i]
            /\ lastOp.failAt \in NamedSteps => asked
            /\ asked =>
                  /\ neg[Len(neg)].fn = lastOp.failAt
                  /\ lastOp.err.msg = StepMessage(lastOp.failAt)
                  /\ lastOp.err # NoErr
                  /\ ~reachable
                  /\ Audio = NoAudio
            /\ ~asked =>
                  /\ Len(named) = Len(NamedOrder)
                  /\ lastOp.err = NoErr

C10_Witness ==
    /\ lastOp.name = "NewPlaybackDevice"
    /\ lastOp.failAt = "snd_pcm_hw_params_set_channels"
    /\ Len(NamedCalls(lastOp)) = 4
    /\ lastOp.err.msg = "could not set channels params"
    /\ ~reachable

(* The calls of the constructor to the backend function fn. *)
CallsTo(op, fn) == SelectSeq(op.calls, LAMBDA c : c.fn = fn)

Built == IsConstructor(lastOp) /\ lastOp.err = NoErr

(* What the backend returned through the pointer of set_buffer_size_near  *)
(* and set_period_size_near: its adjustment of the value the call passed. *)
AcceptedBuffer ==
    Near(CallsTo(lastOp, "snd_pcm_hw_params_set_buffer_size_near")[1].arg,
         negIn.be.bufAdj)
AcceptedPeriod ==
    PeriodNear(CallsTo(lastOp, "snd_pcm_hw_params_set_period_size_near")[1].arg,
               negIn.be.perAdj, AcceptedBuffer)

(* C11: after a successful negotiation the stored buffer length, period   *)
(* length and period count are the values the backend returned from       *)
(* set_buffer_size_near, set_period_size_near and get_periods.            *)
C11_LayoutIsBackends ==
    Built =>
        /\ BufferParams.BufferFrames = AcceptedBuffer
        /\ BufferParams.PeriodFrames = AcceptedPeriod
        /\ BufferParams.Periods = negIn.be.periods
        /\ frames = AcceptedPeriod

(* The backend adjusted both sizes away from a hint that gave them, and   *)
(* reports a period count that is not buffer / period.                    *)
C11_Witness ==
    /\ Built
    /\ negIn.hint = Hint(7, 3, 2)
    /\ BufferParams = [BufferFrames |-> 8, PeriodFrames |-> 5, Periods |-> 3]

(* C12: the period length requested is the hint's period frames when      *)
(* positive; otherwise, with a positive hinted period count N, the        *)
(* accepted (backend-adjusted) buffer length divided by N, rounded down;  *)
(* otherwise the sample rate divided by 8, rounded down.                  *)
C12_PeriodRequested ==
    IsConstructor(lastOp) =>
        LET req == CallsTo(lastOp, "snd_pcm_hw_params_set_period_size_near")
            hint == negIn.hint
        IN  /\ Len(req) <= 1
            /\ Built => Len(req) = 1
            /\ Len(req) = 1 =>
                  req[1].arg =
                      IF hint.PeriodFrames > 0
                      THEN hint.PeriodFrames
                      ELSE IF hint.Periods > 0
                           THEN AcceptedBuffer \div hint.Periods
                           ELSE negIn.audio.SamplingRate \div PeriodDivisor

(* A period count of 2 on a hinted buffer of 7 that the backend made 8. *)
C12_Witness ==
    /\ Built
    /\ negIn.hint = Hint(7, 0, 2)
    /\ negIn.be.bufAdj = 1
    /\ CallsTo(lastOp, "snd_pcm_hw_params_set_period_size_near")[1].arg = 4

C20_BufferRequested ==
    IsConstructor(lastOp) =>
        LET req == CallsTo(lastOp, "snd_pcm_hw_params_set_buffer_size_near")
            max == CallsTo(lastOp, "snd_pcm_hw_params_get_buffer_size_max")
            hint == negIn.hint
        IN  /\ Len(req) <= 1
            /\ Built => Len(req) = 1
            /\ Len(max) = IF hint.BufferFrames = 0 /\ Len(req) = 1 THEN 1 ELSE 0
            /\ Len(req) = 1 =>
                  req[1].arg = IF hint.BufferFrames = 0 THEN negIn.be.bufMax
                               ELSE hint.BufferFrames
            /\ Built =>
                  BufferParams.BufferFrames =
                      Near(IF hint.BufferFrames = 0 THEN negIn.be.bufMax
                           ELSE hint.BufferFrames, negIn.be.bufAdj)

C20_Witness ==
    /\ Built
    /\ negIn.hint.BufferFrames = 0
    /\ negIn.be.bufMax = 8
    /\ negIn.be.bufAdj = -1
    /\ CallsTo(lastOp, "snd_pcm_hw_params_set_buffer_size_near")[1].arg = 8
    /\ BufferParams.BufferFrames = 7

(* A step that ran Close, from the caller or from the finalizer. *)
CloseRan ==
    /\ lastOp'.name \in {"Close", "finalizer"}
    /\ \/ lastOp' # lastOp
       \/ closeCount' # closeCount
       \/ h' # h
       \/ finalizer' # finalizer

(* C19: Close on a device whose handle is not nil issues drain and then   *)
(* release on that handle, each once, leaves the handle nil and the       *)
(* finalizer cancelled.                                                   *)
C19_CloseDrainsThenReleases ==
    [][(h # NULL /\ CloseRan /\ lastOp'.out = "return") =>
           /\ lastOp'.calls = <<Call("snd_pcm_drain", h, 0), Call("snd_pcm_close", h, 0)>>
           /\ h' = NULL
           /\ ~finalizer']_vars

----------------------------------------------------------------------------
(* Master volume properties. *)

VolCalls(p, fn) == SelectSeq(p.calls, LAMBDA c : c.fn = fn)

VolSucceeded(p, op) == p.op = op /\ p.err = NoErr /\ p.out = "return"

(* C14: a SetMasterVolume(percent) call that succeeds has applied, once   *)
(* and to the element it looked up, the native value                      *)
(* min + floor(percent * (max - min) / 100), min and max being the range  *)
(* reported to that call; no call applies another value.                  *)
C14_SetAppliesLinearMap ==
    LET sets == VolCalls(vlast, "snd_mixer_selem_set_playback_volume_all")
        native == vlast.min + ((vlast.volume * (vlast.max - vlast.min)) \div 100)
    IN  /\ VolSucceeded(vlast, "SetMasterVolume") => Len(sets) = 1
        /\ \A i \in 1..Len(sets) : sets[i] = Call(sets[i].fn, ELEM, native)

(* C15: a GetMasterVolume call that succeeds queried the range and the    *)
(* value once each in that call, was given the backend's range and value  *)
(* of that moment (not those of an earlier call), and returns             *)
(* floor(100 * (current - min) / (max - min)).  A call returns only when  *)
(* min < max.                                                             *)
C15_GetReportsPercent ==
    VolSucceeded(vlast, "GetMasterVolume") =>
        /\ Len(VolCalls(vlast, "snd_mixer_selem_get_playback_volume_range")) = 1
        /\ Len(VolCalls(vlast, "snd_mixer_selem_get_playback_volume")) = 1
        /\ <<vlast.min, vlast.max, vlast.cur>> = <<mixer.min, mixer.max, mixer.vol>>
        /\ vlast.min < vlast.max
        /\ vlast.result = (100 * (vlast.cur - vlast.min)) \div (vlast.max - vlast.min)

(* A call that follows a change of the control, on a range not starting   *)
(* at 0, returning a percentage strictly between the ends.                *)
C15_Witness ==
    /\ VolSucceeded(vlast, "GetMasterVolume")
    /\ vprev.op = "Reconfigure"
    /\ vlast.min # 0
    /\ vlast.result \in 1..99

(* C16: a successful SetMasterVolume(p), p in {0, 50, 100}, directly      *)
(* followed by a successful GetMasterVolume on the same range min < max,  *)
(* makes the latter return r with |r - p| <= 1.                           *)
C16_RoundTrip ==
    (/\ vprev.op = "SetMasterVolume" /\ vprev.ok
     /\ vprev.volume \in {0, 50, 100}
     /\ VolSucceeded(vlast, "GetMasterVolume")
     /\ vlast.min < vlast.max)
        => Abs(vlast.result - vprev.volume) <= 1

InFlight == {c \in Callers : vproc[c].pc # "idle"}

(* C17: while the process runs, the open mixer handles are exactly those  *)
(* of the calls in flight, one per call and none in two calls; a call in  *)
(* flight has not closed its handle; a call that is over and had opened   *)
(* a handle closed that handle exactly once, as its last backend call,    *)
(* whatever its outcome; a call whose open failed closed nothing.         *)
C17_MixerHandleReleasedOnce ==
    VolRunning =>
        /\ mixerOpen = {vproc[c].handle : c \in InFlight}
        /\ \A c, d \in InFlight : c # d => vproc[c].handle # vproc[d].handle
        /\ \A c \in InFlight :
              /\ vproc[c].handle # NULL
              /\ VolCalls(vproc[c], "snd_mixer_close") = <<>>
        /\ vlast.op \in VolOps =>
              IF vlast.handle = NULL
              THEN VolCalls(vlast, "snd_mixer_close") = <<>>
              ELSE /\ VolCalls(vlast, "snd_mixer_close")
                        = <<Call("snd_mixer_close", vlast.handle, 0)>>
                   /\ vlast.calls[Len(vlast.calls)].fn = "snd_mixer_close"

(* A call that had opened its handle while another call held one has      *)
(* returned an error before its identifier was allocated, and the other   *)
(* call is still in flight.                                               *)
C17_Witness ==
    /\ VolRunning
    /\ vlast.op \in VolOps /\ vlast.err # NoErr /\ ~vlast.sid
    /\ vlast.handle = MixerHandles[2]
    /\ \E c \in InFlight : vproc[c].pc = "ranged"

VolCleanup == {"snd_mixer_selem_id_free", "snd_mixer_close"}

ElemCalls ==
    {"snd_mixer_selem_get_playback_volume_range", "snd_mixer_selem_get_playback_volume",
     "snd_mixer_selem_set_playback_volume_all"}

(* The backend functions the call p issued after its first call of fn. *)
StepsAfter(p, fn) ==
    LET i == CHOOSE j \in 1..Len(p.calls) : p.calls[j].fn = fn
    IN  {p.calls[k].fn : k \in (i + 1)..Len(p.calls)}

(* C18: in a volume call that is over, a negative status of               *)
(* snd_mixer_attach or of any later step made the call return an error    *)
(* with nothing but cleanup issued after the failing step, and no range   *)
(* query, volume query or volume change was issued on a nil element.      *)
C18_BackendFailureStopsCall ==
    vlast.op \in VolOps =>
        /\ vlast.attachRet < 0 =>
              /\ vlast.out = "return" /\ vlast.err # NoErr
              /\ StepsAfter(vlast, "snd_mixer_attach") \subseteq VolCleanup
        /\ vlast.failAt # "none" =>
              /\ vlast.out = "return" /\ vlast.err # NoErr
              /\ StepsAfter(vlast, vlast.failAt) \subseteq VolCleanup
        /\ \A i \in 1..Len(vlast.calls) :
              vlast.calls[i].fn \in ElemCalls => vlast.calls[i].h # NULL

----------------------------------------------------------------------------
(* Remaining properties. *)

TransferMessage(op) == IF op.name = "Read" THEN "read error" ELSE "write error"

(* C21: a Read or Write whose backend transfer returned a negative status *)
(* other than -EPIPE returns 0 samples and the generic error made of      *)
(* "read error" / "write error" and that status, has issued the transfer  *)
(* and nothing else (no snd_pcm_prepare), and leaves the handle as it     *)
(* was.                                                                   *)
C21_OtherErrorIsGeneric ==
    [][(Transferred(lastOp') /\ lastOp'.ret \in OtherErrs) =>
           /\ lastOp'.samples = 0
           /\ lastOp'.err = createError(TransferMessage(lastOp'), lastOp'.ret)
           /\ lastOp'.err \notin {ErrOverrun, ErrUnderrun}
           /\ Len(lastOp'.calls) = 1
           /\ lastOp'.calls[1].fn = TransferFn(lastOp')
           /\ lastOp'.calls[1].h = h
           /\ h' = h]_vars

(* A Read on an open capture device was refused by the backend with       *)
(* another status than -EPIPE.                                            *)
C21_Witness ==
    /\ lastOp.name = "Read"
    /\ lastOp.ret \in OtherErrs
    /\ lastOp.out = "return"
    /\ lastOp.err = createError("read error", lastOp.ret)
    /\ h # NULL /\ closeCount = 0

(* C22: a GetMasterVolume call to which the backend reported a range and  *)
(* a value with min <= value <= max, min = max included, returns without  *)
(* a panic a percentage in 0..100.                                        *)
C22_GetNeverDividesByZero ==
    (/\ vlast.op = "GetMasterVolume"
     /\ vlast.failAt = "none"
     /\ Len(VolCalls(vlast, "snd_mixer_selem_get_playback_volume")) = 1
     /\ vlast.min <= vlast.cur /\ vlast.cur <= vlast.max)
        => /\ vlast.out = "return"
           /\ vlast.err = NoErr
           /\ vlast.result \in 0..100

(* C23: every native value a SetMasterVolume call passes to               *)
(* snd_mixer_selem_set_playback_volume_all lies in the range [min, max]   *)
(* reported to that call.                                                 *)
C23_SetValueWithinRange ==
    LET sets == VolCalls(vlast, "snd_mixer_selem_set_playback_volume_all")
    IN  \A i \in 1..Len(sets) : vlast.min <= sets[i].arg /\ sets[i].arg <= vlast.max

====
